---- MODULE Spec2Model ----
(***************************************************************************)
(* A model of the mini Unix shell of main.cpp: the parsing pipeline        *)
(* (tokenize, expand_env, parse_command), the read-eval loop of main with  *)
(* its history and built-ins, and run_external with the child process it   *)
(* forks.  Strings are sequences of one-character strings; C++ indices     *)
(* 0..n-1 are the TLA+ indices 1..n.                                       *)
(***************************************************************************)
EXTENDS Integers, Sequences, FiniteSets, TLC

----------------------------------------------------------------------------
(* Bounds of the model. *)

\* number of lines the interpreter reads before the input stream ends
MaxLines == 3
\* length of the lines the tokenizer is run on in SpecTok
MaxLen == 5
\* size of a process's descriptor table
NFds == 4
\* length of the tokens expand_env is run on in SpecExp
MaxTokLen == 4
\* number of tokens parse_command is run on in SpecParse
MaxToks == 4
\* number of words of the lines of SpecQuote
MaxWords == 3

----------------------------------------------------------------------------
(* Characters. *)

\* std::isspace in the "C" locale (the vertical tab has no TLA+ escape)
Space == {" ", "\t", "\n", "\r", "\f"}

Lower == {"a","b","c","d","e","f","g","h","i","j","k","l","m",
          "n","o","p","q","r","s","t","u","v","w","x","y","z"}
Upper == {"A","B","C","D","E","F","G","H","I","J","K","L","M",
          "N","O","P","Q","R","S","T","U","V","W","X","Y","Z"}
Digit == {"0","1","2","3","4","5","6","7","8","9"}

\* std::isalpha, std::isalnum
isalpha(c) == c \in Lower \cup Upper
isalnum(c) == isalpha(c) \/ c \in Digit

DQ == "\""
SQ == "'"
BS == "\\"

\* is_all_spaces(s)
is_all_spaces(s) == \A k \in 1..Len(s) : s[k] \in Space

----------------------------------------------------------------------------
(* tokenize: the scanner state is the loop's locals. *)

TokInit == [i |-> 1, cur |-> <<>>, tokens |-> <<>>,
            in_single |-> FALSE, in_double |-> FALSE]

\* mutant: inside double quotes a backslash escapes whatever follows it
TokStep_EscapeAny(line, s) ==
  LET c == line[s.i] IN
  IF s.in_double THEN
    IF c = BS /\ s.i + 1 <= Len(line)
    THEN [s EXCEPT !.cur = Append(@, line[s.i + 1]), !.i = @ + 2]
    ELSE IF c = DQ
         THEN [s EXCEPT !.in_double = FALSE, !.i = @ + 1]
         ELSE [s EXCEPT !.cur = Append(@, c), !.i = @ + 1]
  ELSE IF s.in_single THEN
    IF c = SQ
    THEN [s EXCEPT !.in_single = FALSE, !.i = @ + 1]
    ELSE [s EXCEPT !.cur = Append(@, c), !.i = @ + 1]
  ELSE IF c \in Space THEN
    IF s.cur # <<>>
    THEN [s EXCEPT !.tokens = Append(@, s.cur), !.cur = <<>>, !.i = @ + 1]
    ELSE [s EXCEPT !.i = @ + 1]
  ELSE IF c = DQ THEN [s EXCEPT !.in_double = TRUE, !.i = @ + 1]
  ELSE IF c = SQ THEN [s EXCEPT !.in_single = TRUE, !.i = @ + 1]
  ELSE [s EXCEPT !.cur = Append(@, c), !.i = @ + 1]

\* one iteration of the for loop of tokenize, for i <= Len(line)
TokStep(line, s) ==
  LET c == line[s.i] IN
  IF s.in_double THEN
    IF c = BS /\ s.i + 1 <= Len(line) /\ line[s.i + 1] \in {DQ, BS}
    THEN [s EXCEPT !.cur = Append(@, line[s.i + 1]), !.i = @ + 2]
    ELSE IF c = DQ
         THEN [s EXCEPT !.in_double = FALSE, !.i = @ + 1]
         ELSE [s EXCEPT !.cur = Append(@, c), !.i = @ + 1]
  ELSE IF s.in_single THEN
    IF c = SQ
    THEN [s EXCEPT !.in_single = FALSE, !.i = @ + 1]
    ELSE [s EXCEPT !.cur = Append(@, c), !.i = @ + 1]
  ELSE IF c \in Space THEN
    IF s.cur # <<>>
    THEN [s EXCEPT !.tokens = Append(@, s.cur), !.cur = <<>>, !.i = @ + 1]
    ELSE [s EXCEPT !.i = @ + 1]
  ELSE IF c = DQ THEN [s EXCEPT !.in_double = TRUE, !.i = @ + 1]
  ELSE IF c = SQ THEN [s EXCEPT !.in_single = TRUE, !.i = @ + 1]
  ELSE [s EXCEPT !.cur = Append(@, c), !.i = @ + 1]

\* the statement after the loop: emit a non-empty accumulator
TokFinish(s) ==
  IF s.cur # <<>> THEN [s EXCEPT !.tokens = Append(@, s.cur), !.cur = <<>>]
  ELSE s

RECURSIVE TokLoop(_, _)
TokLoop(line, s) ==
  IF s.i <= Len(line) THEN TokLoop(line, TokStep(line, s)) ELSE s

tokenize(line) == TokFinish(TokLoop(line, TokInit)).tokens

----------------------------------------------------------------------------
(* expand_env.  An environment maps a name to [set, val]; getenv gives     *)
(* [set |-> FALSE] for a name that is not bound (the null pointer).        *)

Unset == [set |-> FALSE, val |-> <<>>]
Bound(v) == [set |-> TRUE, val |-> v]

getenv(e, var) == IF var \in DOMAIN e THEN e[var] ELSE Unset

\* the index j reached by the while loop of expand_env_in_token
RECURSIVE NameEnd(_, _)
NameEnd(tok, j) ==
  IF j <= Len(tok) /\ (isalnum(tok[j]) \/ tok[j] = "_")
  THEN NameEnd(tok, j + 1) ELSE j

RECURSIVE ExpandFrom(_, _, _, _)
ExpandFrom(e, tok, i, out) ==
  IF i > Len(tok) THEN out
  ELSE IF tok[i] = "$" THEN
    LET j == i + 1 IN
    IF j <= Len(tok) /\ (isalpha(tok[j]) \/ tok[j] = "_")
    THEN LET j2  == NameEnd(tok, j + 1)
             var == SubSeq(tok, i + 1, j2 - 1)
             val == getenv(e, var)
         IN ExpandFrom(e, tok, j2, IF val.set THEN out \o val.val ELSE out)
    ELSE ExpandFrom(e, tok, i + 1, Append(out, "$"))
  ELSE ExpandFrom(e, tok, i + 1, Append(out, tok[i]))

\* mutant: the substituted text is expanded once more
expand_env_in_token_Rescan(e, tok) == ExpandFrom(e, ExpandFrom(e, tok, 1, <<>>), 1, <<>>)

expand_env_in_token(e, tok) == ExpandFrom(e, tok, 1, <<>>)

expand_env(e, tokens) ==
  [k \in 1..Len(tokens) |-> expand_env_in_token(e, tokens[k])]

----------------------------------------------------------------------------
(* parse_command. *)

OpIn  == <<"<">>
OpOut == <<">">>
OpApp == <<">", ">">>

\* mutant: >> is not an operator
IsRedirOp_NoAppend(t) == t = OpIn \/ t = OpOut

\* the test t == "<" || t == ">" || t == ">>"
IsRedirOp(t) == t = OpIn \/ t = OpOut \/ t = OpApp

\* Command{}
EmptyCmd == [argv |-> <<>>, in_file |-> <<>>, out_file |-> <<>>, append |-> FALSE]

ErrNone  == <<"none", <<>>>>
ErrEmpty == <<"Empty command", <<>>>>
\* "Syntax error: missing file after redirection " + t
ErrSyntax(t) == <<"Syntax error", t>>

RECURSIVE ParseFrom(_, _, _)
ParseFrom(tokens, i, cmd) ==
  IF i > Len(tokens) THEN
    IF cmd.argv = <<>> THEN [ok |-> FALSE, cmd |-> cmd, err |-> ErrEmpty]
    ELSE [ok |-> TRUE, cmd |-> cmd, err |-> ErrNone]
  ELSE
    LET t == tokens[i] IN
    IF IsRedirOp(t) THEN
      IF i + 1 > Len(tokens)
      THEN [ok |-> FALSE, cmd |-> cmd, err |-> ErrSyntax(t)]
      ELSE LET file == tokens[i + 1] IN
           IF t = OpIn
           THEN ParseFrom(tokens, i + 2, [cmd EXCEPT !.in_file = file])
           ELSE ParseFrom(tokens, i + 2,
                          [cmd EXCEPT !.out_file = file, !.append = (t = OpApp)])
    ELSE ParseFrom(tokens, i + 1, [cmd EXCEPT !.argv = Append(@, t)])

\* mutant: every failure is reported as "Empty command"
parse_command_ErrOverwritten(tokens) ==
  LET r == ParseFrom(tokens, 1, EmptyCmd) IN
  IF ~r.ok THEN [r EXCEPT !.err = ErrEmpty] ELSE r

parse_command(tokens) == ParseFrom(tokens, 1, EmptyCmd)

\* the positions at which the loop of parse_command takes the operator
\* branch (t == "<" || t == ">" || t == ">>"); the position after one is
\* skipped by the i++ of that branch, whatever token stands there
RECURSIVE RedirFrom(_, _)
RedirFrom(tokens, i) ==
  IF i > Len(tokens) THEN {}
  ELSE IF IsRedirOp(tokens[i]) THEN {i} \cup RedirFrom(tokens, i + 2)
  ELSE RedirFrom(tokens, i + 1)

RedirAt(tokens) == RedirFrom(tokens, 1)

\* is_builtin(name)
is_builtin(name) ==
  name \in {<<"c","d">>, <<"p","w","d">>, <<"e","x","i","t">>,
            <<"h","e","l","p">>, <<"h","i","s","t","o","r","y">>}

----------------------------------------------------------------------------
(* The world outside the interpreter. *)

\* history.size() > 200
HistMax == 200

FileNames == {<<"f">>, <<"g">>}
Absent == [exists |-> FALSE, data |-> <<>>]

\* programs execvp can load; any other name fails to load
Programs == {<<"a">>, <<"b">>, <<"c">>}
\* exit codes a loaded program may end with
ExitCodes == {0, 3}

\* descriptor table entries
Closed == [k |-> "closed", name |-> <<>>, mode |-> "-"]
Tty    == [k |-> "tty",    name |-> <<>>, mode |-> "rw"]
File(name, mode) == [k |-> "file", name |-> name, mode |-> mode]

Fd == 0..(NFds - 1)
STDIN_FILENO  == 0
STDOUT_FILENO == 1

\* the descriptor number open() returns: the lowest one that is free
Free(t) == {n \in Fd : t[n] = Closed}
LowestFree(t) == CHOOSE n \in Free(t) : \A m \in Free(t) : n <= m

\* the table of a process started with the three standard streams open
StdFds == [n \in Fd |-> IF n <= 2 THEN Tty ELSE Closed]

\* the environments the interpreter is started in
VarX == <<"X">>
VarHome == <<"H","O","M","E">>
Envs == { [v \in {VarX} |-> Bound(<<">">>)],
          [v \in {VarX, VarHome} |-> IF v = VarX THEN Bound(<<"f">>) ELSE Bound(<<"/">>)] }

\* chdir(path) from cwd: the directories are / and /d
Dirs == {<<"/">>, <<"/","d">>}
ChdirTarget(cwd, path) ==
  IF path \in Dirs THEN path
  ELSE IF path = <<"d">> /\ cwd = <<"/">> THEN <<"/","d">>
  ELSE <<>>

\* the lines the input stream may hold
Lines ==
  { <<" ">>,
    <<">"," ","f">>,
    <<"a"," ",">">>,
    <<"a"," ","$","X"," ","f">>,
    <<"h","i","s","t","o","r","y">>,
    <<"e","x","i","t">>,
    <<"h","e","l","p">>,
    <<"p","w","d"," ",">"," ","f">>,
    <<"c","d"," ","d">>,
    <<"c"," ","<"," ","f"," ",">"," ","g">>,
    <<"n">> }

----------------------------------------------------------------------------
(* State. *)

VARIABLES
  pc,        \* where main is: "read" (getline), "wait" (waitpid), "done"
  exitcode,  \* the value main returned, -1 while it runs
  history,   \* std::vector<std::string> history
  env,       \* the process environment
  cwd,       \* the working directory
  files,     \* the file system: name -> [exists, data]
  fds,       \* the interpreter's descriptor table
  fds0,      \* the table the interpreter was started with
  sigign,    \* SIGCHLD is ignored (inherited), so waitpid ends in ECHILD
  it,        \* the locals of the last loop iteration and what it did:
             \* outcome, msg (std::cerr), out (std::cout), listing (the
             \* <<number, line>> entries the history built-in printed)
  kids,      \* pid -> child process forked by run_external
  waitfor,   \* the pid waitpid was called with
  run,       \* what run_external returned in this iteration, and why
  left,      \* number of lines left in the input stream
  accepted,  \* the lines that parsed into a command, in order
  tline,     \* the line a stand-alone run of tokenize scans
  tk,        \* the locals of that run: i, cur, tokens, in_single, in_double
  tdone,     \* that run has returned
  pf         \* a stand-alone run of expand_env or parse_command, or of the
             \* pipeline on a line and on a quoted copy of it: its input
             \* and, once it has returned, its result

vars == <<pc, exitcode, history, env, cwd, files, fds, fds0, sigign, it,
          kids, waitfor, run, left, accepted, tline, tk, tdone, pf>>

shellvars == <<pc, exitcode, history, env, cwd, files, fds, fds0, sigign, it,
               kids, waitfor, run, left, accepted>>

NoOut == [what |-> "none", chan |-> Closed]
NoIt == [line |-> <<>>, raw |-> <<>>, tokens |-> <<>>, cmd |-> EmptyCmd,
         outcome |-> "none", msg |-> ErrNone, out |-> NoOut, listing |-> <<>>]
NoStatus == [kind |-> "none", code |-> 0]
NoRun == [ret |-> -1, fail |-> "none", wait |-> "none", status |-> NoStatus]
NoPf == [op |-> "none", done |-> TRUE]

\* the interpreter at startup, in an environment of E, with SIGCHLD ignored
\* or not as S says, n lines on its input, a descriptor table from T and a
\* file system from F
ShellStart(E, S, n, T, F) ==
  /\ pc = "read"
  /\ exitcode = -1
  /\ history = <<>>
  /\ env \in E
  /\ cwd = <<"/">>
  /\ files \in F
  /\ fds \in T
  /\ fds0 = fds
  /\ sigign \in S
  /\ it = NoIt
  /\ kids = <<>>
  /\ waitfor = 0
  /\ run = NoRun
  /\ left = n
  /\ accepted = <<>>

\* the usual start: the three standard streams open, no file yet
ShellInit(E, S, n) == ShellStart(E, S, n, {StdFds}, {[f \in FileNames |-> Absent]})

Init ==
  /\ ShellInit(Envs, BOOLEAN, MaxLines)
  /\ tline = <<>>
  /\ tk = TokInit
  /\ tdone = TRUE
  /\ pf = NoPf

----------------------------------------------------------------------------
(* main: one loop iteration up to the dispatch. *)

\* tokenize, expand_env, parse_command on a line (main, lines 256-264)
\* mutant: nothing is expanded in a line that holds a single quote
Pipeline_SingleQuoteLiteral(e, line) ==
  LET raw == tokenize(line)
      tokens == IF SQ \in {line[k] : k \in 1..Len(line)} THEN raw ELSE expand_env(e, raw)
      res == parse_command(tokens)
  IN [line |-> line, raw |-> raw, tokens |-> tokens, cmd |-> res.cmd,
      ok |-> res.ok, err |-> res.err]

Pipeline(e, line) ==
  LET raw == tokenize(line)
      tokens == expand_env(e, raw)
      res == parse_command(tokens)
  IN [line |-> line, raw |-> raw, tokens |-> tokens, cmd |-> res.cmd,
      ok |-> res.ok, err |-> res.err]

\* mutant: the newest entry is the one dropped
Push_DropNewest(h, line) ==
  LET h2 == Append(h, line) IN IF Len(h2) > HistMax THEN SubSeq(h2, 1, HistMax) ELSE h2

\* history.push_back(line); if (history.size() > 200) erase(begin())
Push(h, line) ==
  LET h2 == Append(h, line) IN IF Len(h2) > HistMax THEN Tail(h2) ELSE h2

\* mutant: the pwd branch is missing
Dispatch_NoPwd(name) ==
  IF name = <<"e","x","i","t">> THEN "exit"
  ELSE IF name = <<"c","d">> THEN "cd"
  ELSE IF name = <<"h","e","l","p">> THEN "help"
  ELSE IF name = <<"h","i","s","t","o","r","y">> THEN "history"
  ELSE "external"

\* the branch main takes on argv[0]
Dispatch(name) ==
  IF name = <<"e","x","i","t">> THEN "exit"
  ELSE IF name = <<"c","d">> THEN "cd"
  ELSE IF name = <<"p","w","d">> THEN "pwd"
  ELSE IF name = <<"h","e","l","p">> THEN "help"
  ELSE IF name = <<"h","i","s","t","o","r","y">> THEN "history"
  ELSE "external"

It(p, outcome, msg) ==
  [line |-> p.line, raw |-> p.raw, tokens |-> p.tokens, cmd |-> p.cmd,
   outcome |-> outcome, msg |-> msg, out |-> NoOut, listing |-> <<>>]

\* a write of the interpreter to std::cout
Cout(what) == [what |-> what, chan |-> fds[STDOUT_FILENO]]

\* getline fails: print a newline and leave the loop, return 0
ReadEOF ==
  /\ pc = "read"
  /\ pc' = "done"
  /\ exitcode' = 0
  /\ it' = [NoIt EXCEPT !.outcome = "eof", !.out = Cout("newline")]
  /\ UNCHANGED <<pf, tline, tk, tdone, history, env, cwd, files, fds, fds0,
                 sigign, kids,
                 waitfor, run, left, accepted>>

\* if (is_all_spaces(line)) continue
SkipBlank(line) ==
  /\ pc = "read" /\ left > 0 /\ fds[STDIN_FILENO] # Closed
  /\ is_all_spaces(line)
  /\ it' = [NoIt EXCEPT !.line = line, !.outcome = "blank"]
  /\ left' = left - 1
  /\ run' = NoRun
  /\ UNCHANGED <<pf, tline, tk, tdone, pc, exitcode, history, env, cwd, files,
                 fds, fds0, sigign,
                 kids, waitfor, accepted>>

\* parse_command failed: report unless the error is "Empty command"; continue
Reject(line) ==
  /\ pc = "read" /\ left > 0 /\ fds[STDIN_FILENO] # Closed
  /\ ~is_all_spaces(line)
  /\ LET p == Pipeline(env, line) IN
       /\ ~p.ok
       /\ it' = It(p, IF p.err = ErrEmpty THEN "empty" ELSE "syntax",
                      IF p.err # ErrEmpty THEN p.err ELSE ErrNone)
  /\ left' = left - 1
  /\ run' = NoRun
  /\ UNCHANGED <<pf, tline, tk, tdone, pc, exitcode, history, env, cwd, files,
                 fds, fds0, sigign,
                 kids, waitfor, accepted>>

\* the line parsed: it is pushed on the history and dispatched as `what`
Accept(line, what) ==
  /\ pc = "read" /\ left > 0 /\ fds[STDIN_FILENO] # Closed
  /\ ~is_all_spaces(line)
  /\ LET p == Pipeline(env, line) IN p.ok /\ Dispatch(p.cmd.argv[1]) = what
  /\ history' = Push(history, line)
  /\ accepted' = Append(accepted, line)
  /\ left' = left - 1

----------------------------------------------------------------------------
(* main: the built-ins. *)

\* name == "exit": break, return 0
BuiltinExit(line) ==
  /\ Accept(line, "exit")
  /\ it' = It(Pipeline(env, line), "exit", ErrNone)
  /\ pc' = "done"
  /\ exitcode' = 0
  /\ run' = NoRun
  /\ UNCHANGED <<pf, tline, tk, tdone, env, cwd, files, fds, fds0, sigign, kids,
                 waitfor>>

\* the path builtin_cd passes to chdir
CdPath(e, argv) ==
  IF Len(argv) < 2
  THEN (IF getenv(e, VarHome).set THEN getenv(e, VarHome).val ELSE <<"/">>)
  ELSE argv[2]

\* builtin_cd: chdir, or perror("cd") when it fails
BuiltinCd(line) ==
  /\ Accept(line, "cd")
  /\ LET p == Pipeline(env, line)
         target == ChdirTarget(cwd, CdPath(env, p.cmd.argv))
     IN IF target # <<>>
        THEN cwd' = target /\ it' = It(p, "cd", ErrNone)
        ELSE cwd' = cwd /\ it' = It(p, "cd", <<"perror", <<"c","d">>>>)
  /\ run' = NoRun
  /\ UNCHANGED <<pf, tline, tk, tdone, pc, exitcode, env, files, fds, fds0,
                 sigign, kids, waitfor>>

\* builtin_pwd: getcwd succeeds and the directory goes to std::cout
BuiltinPwd(line) ==
  /\ Accept(line, "pwd")
  /\ it' = [It(Pipeline(env, line), "pwd", ErrNone) EXCEPT !.out = Cout("pwd")]
  /\ run' = NoRun
  /\ UNCHANGED <<pf, tline, tk, tdone, pc, exitcode, env, cwd, files, fds,
                 fds0, sigign, kids, waitfor>>

\* builtin_pwd: getcwd fails, perror("pwd")
BuiltinPwdFail(line) ==
  /\ Accept(line, "pwd")
  /\ it' = It(Pipeline(env, line), "pwd", <<"perror", <<"p","w","d">>>>)
  /\ run' = NoRun
  /\ UNCHANGED <<pf, tline, tk, tdone, pc, exitcode, env, cwd, files, fds,
                 fds0, sigign, kids, waitfor>>

\* print_help
BuiltinHelp(line) ==
  /\ Accept(line, "help")
  /\ it' = [It(Pipeline(env, line), "help", ErrNone) EXCEPT !.out = Cout("help")]
  /\ run' = NoRun
  /\ UNCHANGED <<pf, tline, tk, tdone, pc, exitcode, env, cwd, files, fds,
                 fds0, sigign, kids, waitfor>>

\* mutant: the entries are numbered from 0
HistoryListing_FromZero(h) == [k \in 1..Len(h) |-> <<k - 1, h[k]>>]

\* the loop printing (i + 1) << "  " << history[i] over the history
HistoryListing(h) == [k \in 1..Len(h) |-> <<k, h[k]>>]

BuiltinHistory(line) ==
  /\ Accept(line, "history")
  /\ it' = [It(Pipeline(env, line), "history", ErrNone)
              EXCEPT !.out = Cout("history"), !.listing = HistoryListing(history')]
  /\ run' = NoRun
  /\ UNCHANGED <<pf, tline, tk, tdone, pc, exitcode, env, cwd, files, fds,
                 fds0, sigign, kids,
                 waitfor>>

----------------------------------------------------------------------------
(* run_external: the parent side. *)

MaxPid == MaxLines
NewPid == CHOOSE p \in 1..MaxPid : p \notin DOMAIN kids /\
            \A q \in 1..MaxPid : q \notin DOMAIN kids => p <= q

\* the value run_external returns when fork fails
ForkFailStatus == 1

\* mutant: a failed fork ends the interpreter
ForkFail_Exits(line) ==
  /\ Accept(line, "external")
  /\ it' = It(Pipeline(env, line), "external", <<"perror", <<"f","o","r","k">>>>)
  /\ run' = [ret |-> ForkFailStatus, fail |-> "fork", wait |-> "none",
             status |-> NoStatus]
  /\ pc' = "done"
  /\ exitcode' = 1
  /\ UNCHANGED <<pf, tline, tk, tdone, env, cwd, files, fds, fds0, sigign,
                 kids, waitfor>>

\* fork() < 0: perror("fork"), return
ForkFail(line) ==
  /\ Accept(line, "external")
  /\ it' = It(Pipeline(env, line), "external", <<"perror", <<"f","o","r","k">>>>)
  /\ run' = [ret |-> ForkFailStatus, fail |-> "fork", wait |-> "none",
             status |-> NoStatus]
  /\ UNCHANGED <<pf, tline, tk, tdone, pc, exitcode, env, cwd, files, fds,
                 fds0, sigign, kids, waitfor>>

\* the child right after fork: a copy of the parent at line 199
\* (files0: the file system at the fork; wrote, readin: what the loaded
\* program wrote to descriptor 1 and read from descriptor 0)
NewKid(cmd, t, fs) ==
  [st |-> "in", cmd |-> cmd, fds |-> t, fd |-> -1,
   status |-> NoStatus, fail |-> "none", trace |-> <<>>,
   files0 |-> fs, wrote |-> <<>>, readin |-> <<>>]

\* fork() > 0: the parent goes to waitpid(pid)
ForkOk(line) ==
  /\ Accept(line, "external")
  /\ LET p == Pipeline(env, line) IN
       /\ it' = It(p, "external", ErrNone)
       /\ kids' = (NewPid :> NewKid(p.cmd, fds, files)) @@ kids
  /\ waitfor' = NewPid
  /\ pc' = "wait"
  /\ run' = NoRun
  /\ UNCHANGED <<pf, tline, tk, tdone, exitcode, env, cwd, files, fds, fds0,
                 sigign>>

\* mutant: the exit code is reduced to success or failure
StatusOf_Flag(status) == IF status.kind = "exited" /\ status.code = 0 THEN 0 ELSE 1

\* WIFEXITED(status) ? WEXITSTATUS(status) : 1
StatusOf(status) == IF status.kind = "exited" THEN status.code ELSE 1

\* mutant: waitpid does not block (WNOHANG)
WaitReady_NoHang(p) == p \in DOMAIN kids

\* waitpid(pid) blocks until that child has terminated
WaitReady(p) == p \in DOMAIN kids /\ kids[p].st = "zombie"

\* a terminated child is reaped; a running one stays
Reap(f, p) ==
  IF f[p].st = "zombie" THEN [q \in DOMAIN f \ {p} |-> f[q]] ELSE f

\* waitpid returns the pid: run_external returns the translated status
WaitOk ==
  /\ pc = "wait" /\ ~sigign
  /\ WaitReady(waitfor)
  /\ run' = [ret |-> StatusOf(kids[waitfor].status),
             fail |-> kids[waitfor].fail, wait |-> "ok",
             status |-> kids[waitfor].status]
  /\ kids' = Reap(kids, waitfor)
  /\ pc' = "read"
  /\ UNCHANGED <<pf, tline, tk, tdone, exitcode, history, env, cwd, files, fds,
                 fds0, sigign, it,
                 waitfor, left, accepted>>

\* waitpid < 0 (ECHILD: SIGCHLD is ignored, the terminated child is gone):
\* perror("waitpid"), return 1
WaitFail ==
  /\ pc = "wait" /\ sigign
  /\ WaitReady(waitfor)
  /\ run' = [ret |-> 1, fail |-> kids[waitfor].fail, wait |-> "failed",
             status |-> kids[waitfor].status]
  /\ kids' = Reap(kids, waitfor)
  /\ pc' = "read"
  /\ UNCHANGED <<pf, tline, tk, tdone, exitcode, history, env, cwd, files, fds,
                 fds0, sigign, it,
                 waitfor, left, accepted>>

----------------------------------------------------------------------------
(* run_external: the child side (pid == 0). *)

\* the status of _exit(127)
ExitFail == 127

\* mutant: the child stops instead of terminating
Terminated_Stopped(k, status, fail) ==
  [k EXCEPT !.st = "stopped", !.status = status, !.fail = fail, !.fd = -1]

Terminated(k, status, fail) ==
  [k EXCEPT !.st = "zombie", !.status = status, !.fail = fail, !.fd = -1,
            !.fds = [n \in Fd |-> Closed]]

\* mutant: the failing child exits with the generic status 1
ChildExit127_As1(k, fail) ==
  Terminated(k, [kind |-> "exited", code |-> 1], fail)

\* perror(...); _exit(127)
ChildExit127(k, fail) ==
  Terminated(k, [kind |-> "exited", code |-> ExitFail], fail)

Did(k, step) == [k EXCEPT !.trace = Append(@, step)]

\* mutant: the output redirection block is skipped after an input redirection
AfterIn_SkipOut == "exec"

\* the state the child is in after the input redirection block
AfterIn == "out"
\* the state the child is in after the output redirection block
AfterOut == "exec"

\* cmd.in_file.empty(): no input redirection
ChildNoIn(p) ==
  /\ p \in DOMAIN kids /\ kids[p].st = "in"
  /\ kids[p].cmd.in_file = <<>>
  /\ kids' = [kids EXCEPT ![p].st = AfterIn]
  /\ UNCHANGED <<pf, tline, tk, tdone, pc, exitcode, history, env, cwd, files,
                 fds, fds0, sigign,
                 it, waitfor, run, left, accepted>>

\* open(in_file, O_RDONLY) returns the lowest free descriptor
ChildOpenIn(p) ==
  /\ p \in DOMAIN kids /\ kids[p].st = "in"
  /\ kids[p].cmd.in_file # <<>>
  /\ kids[p].cmd.in_file \in FileNames
  /\ files[kids[p].cmd.in_file].exists
  /\ LET k == kids[p]
         fd == LowestFree(k.fds)
     IN kids' = [kids EXCEPT ![p] =
                   [Did(k, "open_in") EXCEPT !.st = "in_dup", !.fd = fd,
                        !.fds = [k.fds EXCEPT ![fd] = File(k.cmd.in_file, "r")]]]
  /\ UNCHANGED <<pf, tline, tk, tdone, pc, exitcode, history, env, cwd, files,
                 fds, fds0, sigign,
                 it, waitfor, run, left, accepted>>

\* mutant: the failure is reported and the child goes on
ChildOpenInFail_GoesOn(p) ==
  /\ p \in DOMAIN kids /\ kids[p].st = "in"
  /\ kids[p].cmd.in_file # <<>>
  /\ kids' = [kids EXCEPT ![p] =
                [Did(kids[p], "open_in") EXCEPT !.st = AfterIn, !.fail = "redirect"]]
  /\ UNCHANGED <<pf, tline, tk, tdone, pc, exitcode, history, env, cwd, files,
                 fds, fds0, sigign,
                 it, waitfor, run, left, accepted>>

\* open(in_file, O_RDONLY) < 0: perror("open <"); _exit(127)
ChildOpenInFail(p) ==
  /\ p \in DOMAIN kids /\ kids[p].st = "in"
  /\ kids[p].cmd.in_file # <<>>
  /\ kids' = [kids EXCEPT ![p] = ChildExit127(Did(kids[p], "open_in"), "redirect")]
  /\ UNCHANGED <<pf, tline, tk, tdone, pc, exitcode, history, env, cwd, files,
                 fds, fds0, sigign,
                 it, waitfor, run, left, accepted>>

\* dup2(fd, target) then close(fd), on a descriptor table
Dup2(t, fd, target) == [t EXCEPT ![target] = t[fd]]
Close(t, fd) == [t EXCEPT ![fd] = Closed]

\* dup2(fd, STDIN_FILENO) succeeds
ChildDupIn(p) ==
  /\ p \in DOMAIN kids /\ kids[p].st = "in_dup"
  /\ LET k == kids[p] IN
       kids' = [kids EXCEPT ![p] =
                  [Did(k, "dup_in") EXCEPT !.st = "in_close",
                       !.fds = Dup2(k.fds, k.fd, STDIN_FILENO)]]
  /\ UNCHANGED <<pf, tline, tk, tdone, pc, exitcode, history, env, cwd, files,
                 fds, fds0, sigign,
                 it, waitfor, run, left, accepted>>

\* dup2(fd, STDIN_FILENO) < 0: perror("dup2 <"); _exit(127)
ChildDupInFail(p) ==
  /\ p \in DOMAIN kids /\ kids[p].st = "in_dup"
  /\ kids' = [kids EXCEPT ![p] = ChildExit127(kids[p], "redirect")]
  /\ UNCHANGED <<pf, tline, tk, tdone, pc, exitcode, history, env, cwd, files,
                 fds, fds0, sigign,
                 it, waitfor, run, left, accepted>>

\* close(fd) after the input dup2
ChildCloseIn(p) ==
  /\ p \in DOMAIN kids /\ kids[p].st = "in_close"
  /\ LET k == kids[p] IN
       kids' = [kids EXCEPT ![p] =
                  [Did(k, "close_in") EXCEPT !.st = AfterIn, !.fd = -1,
                       !.fds = Close(k.fds, k.fd)]]
  /\ UNCHANGED <<pf, tline, tk, tdone, pc, exitcode, history, env, cwd, files,
                 fds, fds0, sigign,
                 it, waitfor, run, left, accepted>>

\* cmd.out_file.empty(): no output redirection
ChildNoOut(p) ==
  /\ p \in DOMAIN kids /\ kids[p].st = "out"
  /\ kids[p].cmd.out_file = <<>>
  /\ kids' = [kids EXCEPT ![p].st = AfterOut]
  /\ UNCHANGED <<pf, tline, tk, tdone, pc, exitcode, history, env, cwd, files,
                 fds, fds0, sigign,
                 it, waitfor, run, left, accepted>>

\* what open(out_file, O_WRONLY | O_CREAT | (append ? O_APPEND : O_TRUNC))
\* leaves of the file
\* mutant: O_APPEND truncates as well
OpenedForWrite_Truncates(file, append) == [exists |-> TRUE, data |-> <<>>]

OpenedForWrite(file, append) ==
  IF append THEN [exists |-> TRUE, data |-> file.data]
  ELSE [exists |-> TRUE, data |-> <<>>]

ChildOpenOut(p) ==
  /\ p \in DOMAIN kids /\ kids[p].st = "out"
  /\ kids[p].cmd.out_file # <<>>
  /\ kids[p].cmd.out_file \in FileNames
  /\ LET k == kids[p]
         fd == LowestFree(k.fds)
         name == k.cmd.out_file
     IN /\ kids' = [kids EXCEPT ![p] =
                      [Did(k, "open_out") EXCEPT !.st = "out_dup", !.fd = fd,
                           !.fds = [k.fds EXCEPT ![fd] =
                                      File(name, IF k.cmd.append THEN "a" ELSE "w")]]]
        /\ files' = [files EXCEPT ![name] = OpenedForWrite(@, k.cmd.append)]
  /\ UNCHANGED <<pf, tline, tk, tdone, pc, exitcode, history, env, cwd, fds,
                 fds0, sigign,
                 it, waitfor, run, left, accepted>>

\* open(out_file, ...) < 0: perror("open >"); _exit(127)
ChildOpenOutFail(p) ==
  /\ p \in DOMAIN kids /\ kids[p].st = "out"
  /\ kids[p].cmd.out_file # <<>>
  /\ kids' = [kids EXCEPT ![p] = ChildExit127(Did(kids[p], "open_out"), "redirect")]
  /\ UNCHANGED <<pf, tline, tk, tdone, pc, exitcode, history, env, cwd, files,
                 fds, fds0, sigign,
                 it, waitfor, run, left, accepted>>

\* mutant: the dup2 lands in the interpreter's table (the pid == 0 test is lost)
ChildDupOut_InParent(p) ==
  /\ p \in DOMAIN kids /\ kids[p].st = "out_dup"
  /\ LET k == kids[p] IN
       /\ kids' = [kids EXCEPT ![p] = [Did(k, "dup_out") EXCEPT !.st = "out_close"]]
       /\ fds' = [fds EXCEPT ![STDOUT_FILENO] = k.fds[k.fd]]
  /\ UNCHANGED <<pf, tline, tk, tdone, pc, exitcode, history, env, cwd, files,
                 fds0, sigign,
                 it, waitfor, run, left, accepted>>

\* dup2(fd, STDOUT_FILENO) succeeds
ChildDupOut(p) ==
  /\ p \in DOMAIN kids /\ kids[p].st = "out_dup"
  /\ LET k == kids[p] IN
       kids' = [kids EXCEPT ![p] =
                  [Did(k, "dup_out") EXCEPT !.st = "out_close",
                       !.fds = Dup2(k.fds, k.fd, STDOUT_FILENO)]]
  /\ UNCHANGED <<pf, tline, tk, tdone, pc, exitcode, history, env, cwd, files,
                 fds, fds0, sigign,
                 it, waitfor, run, left, accepted>>

\* dup2(fd, STDOUT_FILENO) < 0: perror("dup2 >"); _exit(127)
ChildDupOutFail(p) ==
  /\ p \in DOMAIN kids /\ kids[p].st = "out_dup"
  /\ kids' = [kids EXCEPT ![p] = ChildExit127(kids[p], "redirect")]
  /\ UNCHANGED <<pf, tline, tk, tdone, pc, exitcode, history, env, cwd, files,
                 fds, fds0, sigign,
                 it, waitfor, run, left, accepted>>

\* close(fd) after the output dup2
ChildCloseOut(p) ==
  /\ p \in DOMAIN kids /\ kids[p].st = "out_close"
  /\ LET k == kids[p] IN
       kids' = [kids EXCEPT ![p] =
                  [Did(k, "close_out") EXCEPT !.st = AfterOut, !.fd = -1,
                       !.fds = Close(k.fds, k.fd)]]
  /\ UNCHANGED <<pf, tline, tk, tdone, pc, exitcode, history, env, cwd, files,
                 fds, fds0, sigign,
                 it, waitfor, run, left, accepted>>

\* execvp(argv[0], argv) replaces the image
ChildExec(p) ==
  /\ p \in DOMAIN kids /\ kids[p].st = "exec"
  /\ kids[p].cmd.argv[1] \in Programs
  /\ kids' = [kids EXCEPT ![p] = [Did(kids[p], "exec") EXCEPT !.st = "running"]]
  /\ UNCHANGED <<pf, tline, tk, tdone, pc, exitcode, history, env, cwd, files,
                 fds, fds0, sigign,
                 it, waitfor, run, left, accepted>>

\* execvp returned: perror("execvp"); _exit(127)
ChildExecFail(p) ==
  /\ p \in DOMAIN kids /\ kids[p].st = "exec"
  /\ kids[p].cmd.argv[1] \notin Programs
  /\ kids' = [kids EXCEPT ![p] = ChildExit127(Did(kids[p], "exec"), "load")]
  /\ UNCHANGED <<pf, tline, tk, tdone, pc, exitcode, history, env, cwd, files,
                 fds, fds0, sigign,
                 it, waitfor, run, left, accepted>>

----------------------------------------------------------------------------
(* The loaded program: a and b write their name to standard output, c      *)
(* copies its standard input to its standard output.                       *)

ReadAll(fs, e) ==
  IF e.k = "file" /\ e.mode = "r" /\ fs[e.name].exists THEN fs[e.name].data
  ELSE <<>>

ProgramOutput(fs, k) ==
  IF k.cmd.argv[1] = <<"c">> THEN ReadAll(fs, k.fds[STDIN_FILENO])
  ELSE k.cmd.argv[1]

\* write(fd, w) through a descriptor opened with O_TRUNC (offset 0) or O_APPEND
WriteTo(fs, e, w) ==
  IF e.k = "file" /\ e.mode \in {"w", "a"} /\ w # <<>>
  THEN [fs EXCEPT ![e.name] =
          [exists |-> TRUE,
           data |-> IF e.mode = "a" THEN @.data \o w
                    ELSE w \o SubSeq(@.data, Len(w) + 1, Len(@.data))]]
  ELSE fs

\* the bytes a write of w through descriptor entry e gets written (EBADF on
\* a closed or read-only descriptor)
Written(e, w) ==
  IF e.k = "tty" \/ (e.k = "file" /\ e.mode \in {"w", "a"}) THEN w ELSE <<>>

\* the program reads its input, writes its output and exits with code c
ChildRun(p, c) ==
  /\ p \in DOMAIN kids /\ kids[p].st = "running"
  /\ files' = WriteTo(files, kids[p].fds[STDOUT_FILENO], ProgramOutput(files, kids[p]))
  /\ kids' = [kids EXCEPT ![p] =
                [Terminated(kids[p], [kind |-> "exited", code |-> c], kids[p].fail)
                   EXCEPT !.wrote = Written(kids[p].fds[STDOUT_FILENO],
                                            ProgramOutput(files, kids[p])),
                          !.readin = IF kids[p].cmd.argv[1] = <<"c">>
                                     THEN ReadAll(files, kids[p].fds[STDIN_FILENO])
                                     ELSE <<>>]]
  /\ UNCHANGED <<pf, tline, tk, tdone, pc, exitcode, history, env, cwd, fds,
                 fds0, sigign,
                 it, waitfor, run, left, accepted>>

\* the child is killed by a signal
ChildKilled(p) ==
  /\ p \in DOMAIN kids /\ kids[p].st # "zombie"
  /\ kids' = [kids EXCEPT ![p] =
                Terminated(kids[p], [kind |-> "signaled", code |-> 0], kids[p].fail)]
  /\ UNCHANGED <<pf, tline, tk, tdone, pc, exitcode, history, env, cwd, files,
                 fds, fds0, sigign,
                 it, waitfor, run, left, accepted>>

----------------------------------------------------------------------------

Next ==
  \/ ReadEOF
  \/ \E line \in Lines :
       \/ SkipBlank(line)
       \/ Reject(line)
       \/ BuiltinExit(line)
       \/ BuiltinCd(line)
       \/ BuiltinPwd(line)
       \/ BuiltinPwdFail(line)
       \/ BuiltinHelp(line)
       \/ BuiltinHistory(line)
       \/ ForkFail(line)
       \/ ForkOk(line)
  \/ \E p \in 1..MaxPid :
       \/ ChildNoIn(p)
       \/ ChildOpenIn(p)
       \/ ChildOpenInFail(p)
       \/ ChildDupIn(p)
       \/ ChildDupInFail(p)
       \/ ChildCloseIn(p)
       \/ ChildNoOut(p)
       \/ ChildOpenOut(p)
       \/ ChildOpenOutFail(p)
       \/ ChildDupOut(p)
       \/ ChildDupOutFail(p)
       \/ ChildCloseOut(p)
       \/ ChildExec(p)
       \/ ChildExecFail(p)
       \/ ChildKilled(p)
       \/ \E c \in ExitCodes : ChildRun(p, c)
  \/ WaitOk
  \/ WaitFail

Spec == Init /\ [][Next]_vars

\* the steps of the interpreter process: the loop of main and the return
\* of waitpid
MainStep ==
  \/ ReadEOF
  \/ \E line \in Lines :
       \/ SkipBlank(line)
       \/ Reject(line)
       \/ BuiltinExit(line)
       \/ BuiltinCd(line)
       \/ BuiltinPwd(line)
       \/ BuiltinPwdFail(line)
       \/ BuiltinHelp(line)
       \/ BuiltinHistory(line)
       \/ ForkFail(line)
       \/ ForkOk(line)
  \/ WaitOk
  \/ WaitFail

\* the steps of the child processes
ChildStep ==
  \E p \in 1..MaxPid :
    \/ ChildNoIn(p)
    \/ ChildOpenIn(p)
    \/ ChildOpenInFail(p)
    \/ ChildDupIn(p)
    \/ ChildDupInFail(p)
    \/ ChildCloseIn(p)
    \/ ChildNoOut(p)
    \/ ChildOpenOut(p)
    \/ ChildOpenOutFail(p)
    \/ ChildDupOut(p)
    \/ ChildDupOutFail(p)
    \/ ChildCloseOut(p)
    \/ ChildExec(p)
    \/ ChildExecFail(p)
    \/ ChildKilled(p)
    \/ \E c \in ExitCodes : ChildRun(p, c)

\* the input is finite and both processes keep being scheduled: the
\* interpreter does not stop between two statements, and every child
\* eventually terminates
SpecLive == Init /\ [][Next]_vars /\ WF_vars(MainStep) /\ WF_vars(ChildStep)

----------------------------------------------------------------------------
(* External commands only, in an interpreter started with any one of its   *)
(* standard descriptors closed and with a file that may already exist.     *)

\* U is not set in any environment of Envs
RunLines ==
  { <<"a"," ",">"," ","f">>,
    <<"a"," ",">",">"," ","f">>,
    <<"b"," ",">",">"," ","f">>,
    <<"c"," ","<"," ","f">>,
    <<"a"," ","<"," ","$","U">>,
    <<"n">> }

\* the tables the interpreter may inherit: all three standard streams open,
\* or one of them closed
RunTables == {StdFds} \cup {[StdFds EXCEPT ![n] = Closed] : n \in 0..2}

\* the files before the first command: none, or f holding one byte
RunFiles ==
  { [f \in FileNames |-> Absent],
    [f \in FileNames |-> IF f = <<"f">> THEN [exists |-> TRUE, data |-> <<"x">>]
                         ELSE Absent] }

InitRun ==
  /\ ShellStart({CHOOSE e \in Envs : VarHome \in DOMAIN e}, {FALSE}, MaxLines,
                RunTables, RunFiles)
  /\ tline = <<>>
  /\ tk = TokInit
  /\ tdone = TRUE
  /\ pf = NoPf

NextRun ==
  \/ ReadEOF
  \/ \E line \in RunLines :
       \/ ForkFail(line)
       \/ ForkOk(line)
  \/ \E p \in 1..MaxPid :
       \/ ChildNoIn(p)
       \/ ChildOpenIn(p)
       \/ ChildOpenInFail(p)
       \/ ChildDupIn(p)
       \/ ChildDupInFail(p)
       \/ ChildCloseIn(p)
       \/ ChildNoOut(p)
       \/ ChildOpenOut(p)
       \/ ChildOpenOutFail(p)
       \/ ChildDupOut(p)
       \/ ChildDupOutFail(p)
       \/ ChildCloseOut(p)
       \/ ChildExec(p)
       \/ ChildExecFail(p)
       \/ \E c \in ExitCodes : ChildRun(p, c)
       \/ ChildKilled(p)
  \/ WaitOk

SpecRun == InitRun /\ [][NextRun]_vars

----------------------------------------------------------------------------
(* The loop of main from the moment HistMax - 1 lines have been accepted:  *)
(* help and history in turn, the last one a help.                          *)

HelpLine == <<"h","e","l","p">>
HistoryLine == <<"h","i","s","t","o","r","y">>

HistPrefix == [k \in 1..(HistMax - 1) |-> IF k % 2 = 1 THEN HelpLine ELSE HistoryLine]

InitHist ==
  /\ pc = "read"
  /\ exitcode = -1
  /\ history = HistPrefix
  /\ accepted = HistPrefix
  /\ env \in Envs
  /\ cwd = <<"/">>
  /\ files = [f \in FileNames |-> Absent]
  /\ fds = StdFds
  /\ fds0 = fds
  /\ sigign = FALSE
  /\ it = [It(Pipeline(env, HelpLine), "help", ErrNone)
            EXCEPT !.out = [what |-> "help", chan |-> StdFds[STDOUT_FILENO]]]
  /\ kids = <<>>
  /\ waitfor = 0
  /\ run = NoRun
  /\ left = MaxLines
  /\ tline = <<>>
  /\ tk = TokInit
  /\ tdone = TRUE
  /\ pf = NoPf

\* the iterations that do not start a child
NextHist ==
  \/ ReadEOF
  \/ \E line \in Lines :
       \/ SkipBlank(line)
       \/ Reject(line)
       \/ BuiltinExit(line)
       \/ BuiltinCd(line)
       \/ BuiltinPwd(line)
       \/ BuiltinPwdFail(line)
       \/ BuiltinHelp(line)
       \/ BuiltinHistory(line)
       \/ ForkFail(line)

SpecHist == InitHist /\ [][NextHist]_vars

----------------------------------------------------------------------------
(* tokenize run on its own, one loop iteration per step. *)

TokAlphabet == {" ", SQ, DQ, BS, "a"}

RECURSIVE SeqsUpTo(_, _)
SeqsUpTo(A, n) ==
  IF n = 0 THEN {<<>>}
  ELSE LET S == SeqsUpTo(A, n - 1) IN
       S \cup {Append(x, c) : x \in {y \in S : Len(y) = n - 1}, c \in A}

InitTok ==
  /\ ShellInit({CHOOSE e \in Envs : VarHome \in DOMAIN e}, {FALSE}, 0)
  /\ tline \in SeqsUpTo(TokAlphabet, MaxLen)
  /\ tk = TokInit
  /\ tdone = FALSE
  /\ pf = NoPf

\* the body of the for loop, once
TokScan ==
  /\ ~tdone
  /\ tk.i <= Len(tline)
  /\ tk' = TokStep(tline, tk)
  /\ UNCHANGED <<pf, tline, tdone, shellvars>>

\* the loop is over: if (!cur.empty()) tokens.push_back(cur); return tokens
TokReturn ==
  /\ ~tdone
  /\ tk.i > Len(tline)
  /\ tk' = TokFinish(tk)
  /\ tdone' = TRUE
  /\ UNCHANGED <<pf, tline, shellvars>>

NextTok == TokScan \/ TokReturn

SpecTok == InitTok /\ [][NextTok]_vars

----------------------------------------------------------------------------
(* expand_env run on its own. *)

ExpAlphabet == {"$", "X", "Y", "_", "1", "/"}

\* X is bound to a text that holds a reference itself, XY to the empty text
ExpEnvs ==
  { [v \in {<<"X">>, <<"Y">>} |->
       IF v = <<"X">> THEN Bound(<<"$","Y">>) ELSE Bound(<<"v">>)],
    [v \in {<<"X","Y">>, <<"_","1">>} |->
       IF v = <<"X","Y">> THEN Bound(<<>>) ELSE Bound(<<"u","$">>)] }

\* no token, one token of up to MaxTokLen characters, or two short tokens
ExpInputs ==
  {<<>>} \cup {<<t>> : t \in SeqsUpTo(ExpAlphabet, MaxTokLen)}
         \cup {<<t, u>> : t \in SeqsUpTo(ExpAlphabet, 2), u \in SeqsUpTo(ExpAlphabet, 1)}

InitExp ==
  /\ ShellInit(ExpEnvs, {FALSE}, 0)
  /\ tline = <<>> /\ tk = TokInit /\ tdone = TRUE
  /\ \E toks \in ExpInputs :
       pf = [op |-> "expand", in |-> toks, out |-> <<>>, done |-> FALSE]

\* expand_env(tokens)
ExpandRun ==
  /\ pf.op = "expand" /\ ~pf.done
  /\ pf' = [pf EXCEPT !.out = expand_env(env, pf.in), !.done = TRUE]
  /\ UNCHANGED <<tline, tk, tdone, shellvars>>

NextExp == ExpandRun

SpecExp == InitExp /\ [][NextExp]_vars

----------------------------------------------------------------------------
(* parse_command run on its own. *)

\* words, the three operators and the empty token an unset variable leaves
ParseTokens == {<<"a">>, <<"f">>, OpIn, OpOut, OpApp, <<>>}

InitParse ==
  /\ ShellInit({CHOOSE e \in Envs : TRUE}, {FALSE}, 0)
  /\ tline = <<>> /\ tk = TokInit /\ tdone = TRUE
  /\ \E toks \in SeqsUpTo(ParseTokens, MaxToks) :
       pf = [op |-> "parse", in |-> toks, done |-> FALSE,
             out |-> [ok |-> FALSE, cmd |-> EmptyCmd, err |-> ErrNone]]

\* parse_command(tokens, cmd, err)
ParseRun ==
  /\ pf.op = "parse" /\ ~pf.done
  /\ pf' = [pf EXCEPT !.out = parse_command(pf.in), !.done = TRUE]
  /\ UNCHANGED <<tline, tk, tdone, shellvars>>

NextParse == ParseRun

SpecParse == InitParse /\ [][NextParse]_vars

----------------------------------------------------------------------------
(* tokenize, expand_env and parse_command run on a line and on the same    *)
(* line with one of its words quoted.                                      *)

\* words without whitespace, quote or backslash
QuoteWords == {<<"a">>, <<"f">>, OpIn, OpOut, OpApp, <<"$","X">>}

\* the words of ws with sep between them
RECURSIVE Join(_, _)
Join(ws, sep) ==
  IF ws = <<>> THEN <<>>
  ELSE IF Len(ws) = 1 THEN ws[1]
  ELSE ws[1] \o sep \o Join(Tail(ws), sep)

InitQuote ==
  /\ ShellInit(Envs, {FALSE}, 0)
  /\ tline = <<>> /\ tk = TokInit /\ tdone = TRUE
  /\ \E ws \in SeqsUpTo(QuoteWords, MaxWords) \ {<<>>} :
     \E k \in 1..MaxWords, q \in {SQ, DQ}, sep \in {<<" ">>, <<>>} :
       /\ k <= Len(ws)
       /\ pf = [op |-> "quote", done |-> FALSE, k |-> k, q |-> q, words |-> ws,
                plain |-> Join(ws, sep),
                quoted |-> Join([ws EXCEPT ![k] = <<q>> \o @ \o <<q>>], sep),
                out |-> <<>>]

\* tokenize, expand_env, parse_command on both lines
QuoteRun ==
  /\ pf.op = "quote" /\ ~pf.done
  /\ pf' = [pf EXCEPT !.out = <<Pipeline(env, pf.plain), Pipeline(env, pf.quoted)>>,
                      !.done = TRUE]
  /\ UNCHANGED <<tline, tk, tdone, shellvars>>

NextQuote == QuoteRun

SpecQuote == InitQuote /\ [][NextQuote]_vars

----------------------------------------------------------------------------
(* Properties. *)

Range(f) == {f[k] : k \in DOMAIN f}

\* the iteration recorded in `it` ran the pipeline on a line
Parsed == it.outcome \notin {"none", "eof", "blank"}

\* the step reads a line from the input stream
ReadsLine == left' = left - 1

\* C1: a token that is not <, > or >> before expansion is never treated by
\* parse_command as a redirection operator after expansion: every position
\* at which the parser takes the operator branch holds an operator in the
\* unexpanded token sequence too.
C1_NoNewRedirection ==
  Parsed => \A k \in RedirAt(it.tokens) : IsRedirOp(it.raw[k])

\* C2, as stated: the history built-in run as the line after n accepted
\* lines prints exactly n entries.
C2_ListsOnlyPrior ==
  it.outcome = "history" => Len(it.listing) = Len(accepted) - 1

\* C2, amended: the history built-in run as the line after n accepted lines
\* (n < 200) prints n + 1 entries numbered 1..n+1 in submission order: the
\* n earlier accepted lines, then the history line itself.
C2_ListsPriorAndSelf ==
  (it.outcome = "history" /\ Len(accepted) <= HistMax) =>
     /\ Len(it.listing) = Len(accepted)
     /\ \A k \in 1..Len(accepted) : it.listing[k] = <<k, accepted[k]>>
     /\ it.listing[Len(accepted)][2] = it.line

C2_Witness ==
  /\ it.outcome = "history"
  /\ Len(accepted) = 3
  /\ accepted[1] # accepted[2]

\* C3, as stated: run_external yields 127 for each of the three ways a
\* command fails to start: fork, redirection, program load.
C3_StartFailureIs127 ==
  run.fail \in {"fork", "redirect", "load"} => run.ret = 127

\* C3, amended: when a redirection or the program load fails the child
\* exits with 127, and run_external yields 127 whenever waitpid succeeds;
\* when fork fails run_external yields 1.
C3_StartFailureStatus ==
  /\ (run.fail \in {"redirect", "load"} /\ run.wait = "ok") => run.ret = 127
  /\ run.fail = "fork" => run.ret = 1
  /\ \A p \in DOMAIN kids :
       kids[p].fail \in {"redirect", "load"} =>
         kids[p].st = "zombie" /\ kids[p].status = [kind |-> "exited", code |-> 127]

C3_Witness ==
  /\ pc = "read"
  /\ run.fail = "redirect" /\ run.wait = "ok" /\ run.ret = 127

\* the line of the step is blank / reaches an operator with no operand /
\* leaves no argv, read off the expanded tokens
LineTokens(e, line) == expand_env(e, tokenize(line))
IsBlankLine(line) == is_all_spaces(line)
IsSyntaxErrorLine(e, line) ==
  /\ ~is_all_spaces(line)
  /\ Len(LineTokens(e, line)) \in RedirAt(LineTokens(e, line))
IsEmptyCommandLine(e, line) ==
  /\ ~is_all_spaces(line)
  /\ ~IsSyntaxErrorLine(e, line)
  /\ \A k \in 1..Len(LineTokens(e, line)) :
        k \in RedirAt(LineTokens(e, line)) \/ (k - 1) \in RedirAt(LineTokens(e, line))

\* C4: a line that is blank, parses to an empty argv, or ends in an operator
\* without operand is not appended to the history, runs no built-in, spawns
\* no child, opens no file, and the interpreter stays at the read step; a
\* message is emitted for the syntax error only.
C4_SkippedLine ==
  [][ (ReadsLine /\ ( \/ IsBlankLine(it'.line)
                      \/ IsSyntaxErrorLine(env, it'.line)
                      \/ IsEmptyCommandLine(env, it'.line) ))
      => /\ history' = history
         /\ kids' = kids /\ files' = files /\ fds' = fds /\ cwd' = cwd
         /\ it'.out = NoOut /\ it'.listing = <<>> /\ run' = NoRun
         /\ pc' = "read" /\ exitcode' = -1
         /\ IF IsSyntaxErrorLine(env, it'.line)
            THEN it'.msg = ErrSyntax(it'.tokens[Len(it'.tokens)])
            ELSE it'.msg = ErrNone ]_vars

C4_Witness ==
  /\ it.outcome = "syntax" /\ it.msg = ErrSyntax(OpOut)
  /\ Len(history) = 1 /\ left = MaxLines - 2

\* step a comes before step b in a child's trace (b may not have happened)
Before(t, a, b) ==
  \A j \in 1..Len(t) : t[j] = b => \E i \in 1..(j - 1) : t[i] = a

\* C5: the child's steps are ordered input redirection, output redirection,
\* program load: execvp is reached only after every requested redirection
\* was opened, duplicated and closed, and a child whose redirection failed
\* terminated with 127 without calling execvp.
C5_RedirectBeforeLoad ==
  \A p \in DOMAIN kids :
    LET k == kids[p]
        t == k.trace
    IN /\ "exec" \in Range(t) =>
            /\ k.cmd.in_file # <<>> =>
                 {"open_in", "dup_in", "close_in"} \subseteq Range(t)
            /\ k.cmd.out_file # <<>> =>
                 {"open_out", "dup_out", "close_out"} \subseteq Range(t)
       /\ Before(t, "open_in", "dup_in") /\ Before(t, "dup_in", "close_in")
       /\ Before(t, "open_out", "dup_out") /\ Before(t, "dup_out", "close_out")
       /\ k.cmd.in_file # <<>> => Before(t, "close_in", "open_out")
       /\ k.cmd.in_file # <<>> => Before(t, "close_in", "exec")
       /\ k.cmd.out_file # <<>> => Before(t, "close_out", "exec")
       /\ k.fail = "redirect" =>
            /\ "exec" \notin Range(t)
            /\ k.st = "zombie"
            /\ k.status = [kind |-> "exited", code |-> 127]

C5_Witness ==
  \E p \in DOMAIN kids :
    /\ kids[p].st = "running"
    /\ kids[p].cmd.in_file # <<>> /\ kids[p].cmd.out_file # <<>>

\* C6: the interpreter's descriptor table is the one it was started with,
\* and no entry of it refers to a redirection file.
C6_ParentDescriptors ==
  /\ fds = fds0
  /\ \A n \in Fd : fds[n].k # "file"

C6_Witness ==
  /\ pc = "read" /\ run.wait = "ok" /\ run.fail = "none" /\ run.ret = 0
  /\ it.cmd.in_file # <<>> /\ it.cmd.out_file # <<>>
  /\ files[it.cmd.out_file].exists

\* C7: an accepted command named cd, pwd, exit, help or history spawns no
\* child and opens, creates or truncates no file whatever in_file/out_file
\* say, and what it prints goes to the interpreter's own standard output.
C7_BuiltinInProcess ==
  [][ (ReadsLine /\ Len(accepted') = Len(accepted) + 1
        /\ is_builtin(it'.cmd.argv[1]))
      => /\ kids' = kids /\ pc' # "wait" /\ run' = NoRun
         /\ files' = files /\ fds' = fds
         /\ it'.out.what # "none" => it'.out.chan = fds0[STDOUT_FILENO] ]_vars

C7_Witness ==
  /\ it.outcome = "pwd" /\ it.out.what = "pwd"
  /\ it.cmd.out_file = <<"f">>
  /\ ~files[<<"f">>].exists

Alive == {p \in DOMAIN kids : kids[p].st # "zombie"}

\* C8: at most one child is alive at any time, the interpreter is at the
\* read step (or has ended) only when none of its children remains, and
\* while it waits, it waits for the pid of the one child it forked.
C8_OneChildAtATime ==
  /\ Cardinality(Alive) <= 1
  /\ Cardinality(DOMAIN kids) <= 1
  /\ pc \in {"read", "done"} => DOMAIN kids = {}
  /\ pc = "wait" => DOMAIN kids = {waitfor}

C8_Witness ==
  /\ pc = "wait" /\ waitfor \in Alive
  /\ kids[waitfor].st = "running"
  /\ Len(history) = 2

\* the step is one of the error conditions of the interpreter
ErrorStep ==
  \/ ReadsLine /\ it'.outcome \in {"syntax", "empty"}
  \/ ReadsLine /\ it'.msg[1] = "perror"
  \/ pc = "wait" /\ pc' # "wait" /\
       (run'.fail # "none" \/ run'.wait = "failed" \/ run'.ret # 0)

\* C9: after an error condition the interpreter is at the read step again;
\* the loop ends only on an accepted command named exit or on end of
\* input, and then the interpreter's exit status is 0.
C9_OnlyExitOrEofEnds ==
  [][ /\ ErrorStep => pc' = "read" /\ exitcode' = -1
      /\ (pc # "done" /\ pc' = "done") =>
            /\ exitcode' = 0
            /\ \/ it'.outcome = "eof" /\ left' = left
               \/ /\ ReadsLine /\ Len(accepted') = Len(accepted) + 1
                  /\ it'.cmd.argv[1] = <<"e","x","i","t">>
      /\ pc = "done" => pc' = "done" ]_vars

C9_Witness ==
  /\ pc = "read" /\ exitcode = -1 /\ left > 0
  /\ run.fail = "load" /\ run.ret = 127

\* the scan as specified, on the input that is left: mode is "none",
\* "single" or "double", acc the accumulator, toks the tokens emitted
Drop(q, n) == SubSeq(q, n + 1, Len(q))

RECURSIVE Scan(_, _, _, _)
Scan(rest, mode, acc, toks) ==
  IF rest = <<>> THEN (IF acc # <<>> THEN Append(toks, acc) ELSE toks)
  ELSE
    LET c == Head(rest) IN
    CASE mode = "none" ->
           IF c \in Space
           THEN Scan(Tail(rest), "none", <<>>,
                     IF acc # <<>> THEN Append(toks, acc) ELSE toks)
           ELSE IF c = DQ THEN Scan(Tail(rest), "double", acc, toks)
           ELSE IF c = SQ THEN Scan(Tail(rest), "single", acc, toks)
           ELSE Scan(Tail(rest), "none", Append(acc, c), toks)
      [] mode = "single" ->
           IF c = SQ THEN Scan(Tail(rest), "none", acc, toks)
           ELSE Scan(Tail(rest), "single", Append(acc, c), toks)
      [] mode = "double" ->
           IF c = DQ THEN Scan(Tail(rest), "none", acc, toks)
           ELSE IF c = BS /\ Len(rest) >= 2 /\ rest[2] \in {DQ, BS}
           THEN Scan(Drop(rest, 2), "double", Append(acc, rest[2]), toks)
           ELSE Scan(Tail(rest), "double", Append(acc, c), toks)

\* C10: tokenize returns the tokens of the specified scan, its two mode
\* flags are never both true, and a line of whitespace only gives no token.
C10_TokenizeIsTheScan ==
  /\ ~(tk.in_single /\ tk.in_double)
  /\ tdone => tk.tokens = Scan(tline, "none", <<>>, <<>>)
  /\ (tdone /\ is_all_spaces(tline)) => tk.tokens = <<>>

C10_Witness ==
  /\ tdone
  /\ tline = <<DQ, BS, "a", BS, DQ>>
  /\ tk.tokens = << <<BS, "a", DQ>> >>
  /\ tk.in_double

\* the rewrite of a token as specified: the text left of the first
\* reference is copied, the reference is replaced by its value, and the
\* rest of the token is rewritten; the value itself is not looked at again
NameStartChar == Lower \cup Upper \cup {"_"}
NameChar == NameStartChar \cup Digit

\* the length of the longest run of name characters q starts with
NameRun(q) ==
  CHOOSE n \in 0..Len(q) :
    /\ \A i \in 1..n : q[i] \in NameChar
    /\ n < Len(q) => q[n + 1] \notin NameChar

ValueOf(e, name) == IF name \in DOMAIN e /\ e[name].set THEN e[name].val ELSE <<>>

RECURSIVE Rewrite(_, _)
Rewrite(e, rest) ==
  IF rest = <<>> THEN <<>>
  ELSE IF Head(rest) = "$" /\ Len(rest) >= 2 /\ rest[2] \in NameStartChar
  THEN LET n == NameRun(Tail(rest)) IN
       ValueOf(e, SubSeq(rest, 2, n + 1)) \o Rewrite(e, Drop(rest, n + 1))
  ELSE <<Head(rest)>> \o Rewrite(e, Tail(rest))

\* C11: expand_env returns a sequence of the same length and order whose
\* k-th token is the single-pass rewrite of the k-th input token: each $
\* followed by a letter or underscore, with the longest run of letters,
\* digits and underscores after it, is replaced by the variable's value
\* (nothing if unset); everything else is copied; values are not rescanned.
C11_ExpandIsSinglePassRewrite ==
  (pf.op = "expand" /\ pf.done) =>
     /\ Len(pf.out) = Len(pf.in)
     /\ \A k \in 1..Len(pf.in) : pf.out[k] = Rewrite(env, pf.in[k])

C11_Witness ==
  /\ pf.op = "expand" /\ pf.done
  /\ pf.in = << <<"$", "X", "/", "$">> >>
  /\ pf.out = << <<"$", "Y", "/", "$">> >>

\* the pairing as specified: a position holds an operator of a pair iff its
\* token is <, > or >> and the position before it does not; the position
\* after an operator is its operand; all other positions are unpaired
OperatorTexts == {<<"<">>, <<">">>, <<">", ">">>}

PairOps(tokens) ==
  CHOOSE S \in SUBSET (1..Len(tokens)) :
    \A i \in 1..Len(tokens) :
      i \in S <=> (tokens[i] \in OperatorTexts /\ (i - 1) \notin S)

Unpaired(tokens) ==
  {i \in 1..Len(tokens) : i \notin PairOps(tokens) /\ (i - 1) \notin PairOps(tokens)}

\* the tokens at the positions S, in their original order
Pick(tokens, S) ==
  [k \in 1..Cardinality(S) |->
     tokens[CHOOSE i \in S : Cardinality({j \in S : j < i}) = k - 1]]

Max(S) == CHOOSE i \in S : \A j \in S : j <= i

\* the operand of the last paired operator among ops, "" when there is none
LastOperand(tokens, ops) ==
  LET at == {i \in PairOps(tokens) : tokens[i] \in ops} IN
  IF at = {} THEN <<>> ELSE tokens[Max(at) + 1]

C13_ReturnsChildStatus ==
  /\ run.status.kind = "exited" => run.ret = run.status.code
  /\ run.status.kind = "signaled" => run.ret = 1

\* C13: when waitpid succeeds, run_external returns c for a child that
\* exited normally with code c; it returns 1 for a child killed by a signal
\* and 1 whenever waitpid fails, whatever the child's status.
C13_ReturnsWaitedStatus ==
  /\ (run.wait = "ok" /\ run.status.kind = "exited") => run.ret = run.status.code
  /\ run.status.kind = "signaled" => run.ret = 1
  /\ run.wait = "failed" => run.ret = 1

C13_Witness ==
  /\ run.wait = "ok" /\ run.fail = "none"
  /\ run.status = [kind |-> "exited", code |-> 3]
  /\ run.ret = 3

\* a child that loaded its program and then exited by itself
Completed(k) ==
  k.st = "zombie" /\ "exec" \in Range(k.trace) /\ k.status.kind = "exited"

\* C14: when a command with an output redirection to f has loaded and
\* written W to its standard output, f holds exactly W after > and the
\* contents f had before the command followed by W after >>; a program that
\* copies its input, run with < f, reads exactly what f held.
C14_TruncateAppendReadBack ==
  \A p \in DOMAIN kids :
    LET k == kids[p] IN
    Completed(k) =>
      /\ k.cmd.out_file \in FileNames =>
           /\ files[k.cmd.out_file].exists
           /\ files[k.cmd.out_file].data =
                IF k.cmd.append THEN k.files0[k.cmd.out_file].data \o k.wrote
                ELSE k.wrote
      /\ (k.cmd.argv[1] = <<"c">> /\ k.cmd.in_file \in FileNames
            /\ k.cmd.out_file # k.cmd.in_file) =>
           k.readin = k.files0[k.cmd.in_file].data

\* a > f, b >> f, then c < f reads back ab
C14_Witness ==
  /\ accepted = << <<"a"," ",">"," ","f">>, <<"b"," ",">",">"," ","f">>,
                   <<"c"," ","<"," ","f">> >>
  /\ fds0 = StdFds
  /\ \E p \in DOMAIN kids :
       /\ Completed(kids[p])
       /\ kids[p].cmd.argv = << <<"c">> >>
       /\ kids[p].readin = <<"a", "b">>
       /\ kids[p].wrote = <<"a", "b">>
       /\ kids[p].files0[<<"f">>].data = <<"a", "b">>

\* the parser consumed a filename operand for the operator op
Consumed(tokens, op) == \E i \in RedirAt(tokens) : tokens[i] \in op

\* C15 as stated: whenever the parser consumed an operand for < (for > or
\* >>), whatever its value after expansion, the child of that command has
\* opened the file before it loads the program.
C15_ParsedRedirectionOpened ==
  (pc = "wait" /\ waitfor \in DOMAIN kids) =>
    LET k == kids[waitfor] IN
    "exec" \in Range(k.trace) =>
      /\ Consumed(it.tokens, {OpIn}) => Before(k.trace, "open_in", "exec")
      /\ Consumed(it.tokens, {OpOut, OpApp}) => Before(k.trace, "open_out", "exec")

\* C16 as stated: whatever descriptor table the interpreter had at the
\* fork, a child that has reached execvp has descriptor 0 open on in_file
\* when in_file is set and descriptor 1 open on out_file when out_file is
\* set, and every other descriptor is as it was at the fork.
C16_StandardStreamsRedirected ==
  \A p \in DOMAIN kids :
    LET k == kids[p] IN
    k.st = "running" =>
      /\ k.cmd.in_file # <<>> => k.fds[STDIN_FILENO] = File(k.cmd.in_file, "r")
      /\ k.cmd.out_file # <<>> =>
           k.fds[STDOUT_FILENO] =
             File(k.cmd.out_file, IF k.cmd.append THEN "a" ELSE "w")
      /\ \A n \in Fd :
           \/ n = STDIN_FILENO /\ k.cmd.in_file # <<>>
           \/ n = STDOUT_FILENO /\ k.cmd.out_file # <<>>
           \/ k.fds[n] = fds[n]

\* C17: with a finite input and children that eventually terminate, the
\* interpreter always returns from waiting for a command to reading the
\* next line, and it eventually terminates with status 0, at an accepted
\* exit command or at the end of the input.
C17_TerminatesWithZero ==
  /\ (pc = "wait") ~> (pc = "read")
  /\ <>[](pc = "done" /\ exitcode = 0 /\ it.outcome \in {"exit", "eof"})

\* the end of the input is reached after MaxLines lines, the last of which
\* ran a child to its end
C17_Witness ==
  /\ pc = "done" /\ exitcode = 0 /\ it.outcome = "eof"
  /\ left = 0 /\ run.wait = "ok" /\ run.status.kind = "exited"

\* C18: the history never holds more than 200 entries and is the raw text
\* of the most recent min(k, 200) accepted lines in submission order, k
\* being the number of accepted lines; when a line is dispatched it is
\* already the newest entry.
C18_HistoryIsRecentAccepted ==
  LET k == Len(accepted)
      n == IF k <= 200 THEN k ELSE 200
  IN
  /\ Len(history) <= 200
  /\ history = SubSeq(accepted, k - n + 1, k)
  /\ it.outcome \in {"exit", "cd", "pwd", "help", "history", "external"} =>
       /\ history # <<>>
       /\ history[Len(history)] = it.line

\* two entries have been evicted, the last accepted line was not a built-in
C18_Witness ==
  /\ Len(accepted) = 202 /\ Len(history) = 200
  /\ history[1] = accepted[3] /\ history[1] # accepted[2]
  /\ history[200] = accepted[202]
  /\ it.outcome = "external" /\ history[200] # history[199]

\* C19: when a command has both redirections and the input redirection
\* fails, the child ends with 127 without attempting the output open, and
\* the output file is as it was when the command started: not created, not
\* truncated, not written.
C19_OutputUntouchedOnInputFailure ==
  \A p \in DOMAIN kids :
    LET k == kids[p] IN
    (/\ k.cmd.in_file # <<>> /\ k.cmd.out_file \in FileNames
     /\ k.fail = "redirect" /\ "close_in" \notin Range(k.trace)) =>
      /\ "open_out" \notin Range(k.trace)
      /\ files[k.cmd.out_file] = k.files0[k.cmd.out_file]
      /\ k.status = [kind |-> "exited", code |-> 127]

\* the output file exists and holds data when the input open fails
C19_Witness ==
  \E p \in DOMAIN kids :
    /\ kids[p].cmd.in_file = <<"f">> /\ kids[p].cmd.out_file = <<"g">>
    /\ kids[p].fail = "redirect" /\ kids[p].trace = <<"open_in">>
    /\ files[<<"g">>] = [exists |-> TRUE, data |-> <<"a">>]

\* C20: a line and the same line with one of its words (non-empty, without
\* whitespace, quote or backslash) put between single or double quotes give
\* the same tokens after expansion and the same result of parse_command:
\* the same Command, or the same error.
C20_QuotingDoesNotSurvive ==
  (pf.op = "quote" /\ pf.done) =>
    /\ pf.out[1].tokens = pf.out[2].tokens
    /\ pf.out[1].cmd = pf.out[2].cmd
    /\ pf.out[1].ok = pf.out[2].ok
    /\ pf.out[1].err = pf.out[2].err

\* a '$X' f with X set to > : the quoted reference is expanded and the
\* value is taken as the operator
C20_Witness ==
  /\ pf.op = "quote" /\ pf.done
  /\ pf.quoted = <<"a", " ", "'", "$", "X", "'", " ", "f">>
  /\ pf.out[2].ok
  /\ pf.out[2].cmd = [argv |-> << <<"a">> >>, in_file |-> <<>>,
                      out_file |-> <<"f">>, append |-> FALSE]

====
